---- MODULE Spec2Model ----
(***************************************************************************)
(* local-devices-gen-x: the bounded-concurrency probe scheduler            *)
(* (mapConcurrently), the scan session built on it, and the three facade   *)
(* operations findLocalDevices, findLocalDevice and getLocalDeviceList.    *)
(*                                                                         *)
(* Strings are sequences of one-character strings, so that toHex and       *)
(* parseIPv4 are computed character by character as the code does.         *)
(* One step of the model is one run-to-completion turn of the event loop:  *)
(* a socket event, a lookup returning, or the consumer pulling.            *)
(***************************************************************************)
EXTENDS Integers, Sequences, FiniteSets, TLC

\* ------------------------------------------------------------------ bounds
\* largest IP set that is scanned
MaxN == 3
\* largest concurrency limit handed to the scheduler
MaxK == 3
\* most entries all per-host lookups of one scan return together
MaxEntries == 2
\* most entries one bulk neighbor-table read returns
MaxTable == 3
\* longest MAC string toHex is applied to, besides the full-length spellings
MaxMacLen == 3
MaxRace == 4
MaxCalls == 2

\* ------------------------------------------------------- generic helpers
Range(s) == {s[i] : i \in 1..Len(s)}

SeqsUpTo(S, n) == UNION {[1..m -> S] : m \in 0..n}

\* ------------------------------------------------------------ characters
Digits == {"0", "1", "2", "3", "4", "5", "6", "7", "8", "9"}

DigitVal(c) ==
  CASE c = "0" -> 0 [] c = "1" -> 1 [] c = "2" -> 2 [] c = "3" -> 3
    [] c = "4" -> 4 [] c = "5" -> 5 [] c = "6" -> 6 [] c = "7" -> 7
    [] c = "8" -> 8 [] c = "9" -> 9

\* String.prototype.toLowerCase on one character
LowerChar(c) ==
  CASE c = "A" -> "a" [] c = "B" -> "b" [] c = "C" -> "c" [] c = "D" -> "d"
    [] c = "E" -> "e" [] c = "F" -> "f" [] c = "G" -> "g" [] c = "Z" -> "z"
    [] OTHER -> c

\* the character class [0-9a-f]
HexChars == Digits \cup {"a", "b", "c", "d", "e", "f"}

toLowerCase(s) == [i \in 1..Len(s) |-> LowerChar(s[i])]

\* the pattern of the earlier revision, /[:-]/g: only separators removed
toHexSeparatorsOnly(mac) ==
  LET low == toLowerCase(mac)
  IN  SelectSeq(low, LAMBDA c : c \notin {":", "-"})

\* toHex = mac => mac.toLowerCase().replace(/[^0-9a-f]/g, '')
toHex(mac) ==
  LET low == toLowerCase(mac)
  IN  SelectSeq(low, LAMBDA c : c \in HexChars)

RECURSIVE Split(_, _)
\* String.prototype.split(sep) for a one-character separator
Split(s, sep) ==
  IF \A i \in 1..Len(s) : s[i] # sep THEN <<s>>
  ELSE LET k == CHOOSE i \in 1..Len(s) :
                  s[i] = sep /\ \A j \in 1..(i - 1) : s[j] # sep
       IN  <<SubSeq(s, 1, k - 1)>> \o Split(SubSeq(s, k + 1, Len(s)), sep)

RECURSIVE Number(_)
\* Number(str) for a string of decimal digits (Number("") is 0)
Number(s) ==
  IF s = <<>> THEN 0
  ELSE 10 * Number(SubSeq(s, 1, Len(s) - 1)) + DigitVal(s[Len(s)])

NaN == [nan |-> TRUE]

\* Number(v) for undefined or a string of the characters 0-9, "-", "+" and
\* letters: the empty string is 0, an optional sign before one or more
\* digits is that integer, everything else is NaN
ToNumber(e) ==
  IF ~e.set THEN NaN
  ELSE LET s == e.value
           signed == s # <<>> /\ s[1] \in {"-", "+"}
           digits == IF signed THEN Tail(s) ELSE s
       IN  IF s = <<>> THEN [nan |-> FALSE, val |-> 0]
           ELSE IF digits = <<>> \/ \E i \in 1..Len(digits) : digits[i] \notin Digits
           THEN NaN
           ELSE [nan |-> FALSE,
                 val |-> IF s[1] = "-" THEN 0 - Number(digits) ELSE Number(digits)]

\* Number(process.env.LOCAL_DEVICES_MAX_CONCURRENT) || 32: NaN and 0 are
\* falsy, every other number is kept
MAX_CONCURRENT(e) ==
  LET n == ToNumber(e)
  IN  IF n.nan \/ n.val = 0 THEN 32 ELSE n.val

\* parseIPv4 = (ip) => ip.split('.').map(Number)
parseIPv4(ip) ==
  LET parts == Split(ip, ".")
  IN  [i \in 1..Len(parts) |-> Number(parts[i])]

Sign(n) == IF n > 0 THEN 1 ELSE IF n < 0 THEN -1 ELSE 0

\* the comparison with the recursion into the remaining octets lost
arrayCompareFirstOnly(as, bs) == Sign(as[1] - bs[1])

RECURSIVE arrayCompare(_, _)
arrayCompare(as, bs) ==
  LET res == Sign(as[1] - bs[1])
  IN  IF res = 0 /\ Len(as) > 1 THEN arrayCompare(Tail(as), Tail(bs))
      ELSE res

\* ------------------------------------------------------------------ data
\* Number.prototype.toString for a non-negative integer
RECURSIVE Decimal(_)
Decimal(n) ==
  LET d == CHOOSE c \in Digits : DigitVal(c) = n % 10
  IN  IF n < 10 THEN <<d>> ELSE Decimal(n \div 10) \o <<d>>

\* the dotted quad 10.0.<net>.<h>
Addr(net, h) ==
  <<"1", "0", ".", "0", ".">> \o Decimal(net) \o <<".">> \o Decimal(h)

\* last octets of the addresses a range expression expands to, in the order
\* the expansions are concatenated (not numerically sorted)
HostPool == <<10, 2, 9, 1, 11>>

\* ipRange / makeIPSet: the target sets, as their Set iteration order
IPSets == {[i \in 1..n |-> Addr(0, HostPool[i])] : n \in 0..MaxN}

AA_BB == <<"A", "A", ":", "B", "B">>
aa_bb == <<"a", "a", "-", "b", "b">>
aabb == <<"a", "a", "b", "b">>
cc_dd == <<"c", "c", ":", "d", "d">>

\* entries the per-host lookups answer with: two for 10.0.0.10 (one of
\* them stale), one for 10.0.0.2 and one outside every target set
Devices ==
  { [ip |-> Addr(0, 10), mac |-> AA_BB],
    [ip |-> Addr(0, 10), mac |-> cc_dd],
    [ip |-> Addr(0, 2), mac |-> cc_dd],
    [ip |-> Addr(1, 2), mac |-> aa_bb] }

\* entries a bulk read of the neighbor table can hold
TableEntries == Devices \cup {[ip |-> Addr(0, 9), mac |-> aabb]}

\* what findLocalDevice is asked for: a MAC or an IP
Queries == {aa_bb, Addr(0, 2)}

NoQuery == <<>>

NoResult == [kind |-> "pending"]
Undefined == [kind |-> "undefined"]
Found(d) == [kind |-> "device", value |-> d]
List(ds) == [kind |-> "list", value |-> ds]

\* ----------------------------------------------------------------- state
VARIABLES
  op,         \* the facade operation that was called
  ipSet,      \* the target IP set, in Set iteration order
  K,          \* MAX_CONCURRENT, the limit handed to mapConcurrently
  macOrIP,    \* findLocalDevice's query
  itPos,      \* how many elements `it` has handed out
  promises,   \* the Map of mapConcurrently, in insertion order
  geni,       \* the slot `i` of the last race winner
  genpc,      \* mapConcurrently: "start", "race", "yield", "end", "returned"
  cpc,        \* the loop around it: "cache", "idle", "wait", "lookup",
              \* "devices", "body", "table", "done"
  host,       \* the address the scheduler yielded last
  devs,       \* entries of the current lookup not yet iterated
  entries,    \* entries returned by the lookups so far
  exact,      \* every lookup so far returned at most one entry, for its host
  table,      \* the bulk neighbor-table read, while it is still used
  tableReads, \* number of bulk reads
  result,     \* what the facade operation returned
  started,    \* addresses ping was called with, in call order
  completed,  \* addresses whose probe resolved, in completion order
  yielded,    \* addresses yielded by mapConcurrently, in order
  lookedUp,   \* addresses ipLookup was called with, in order
  emitted,    \* Device Records yielded by scan, in order
  readFailed, \* a neighbor-table read of this call was rejected
  sock,       \* one ping(address): its socket and its promise
  race,       \* one raceAll(pings): its Map, its iterator, its output
  calls,      \* the scheduler runs of discovery calls in progress together
  hex,        \* MAC strings and what toHex made of them
  env         \* process.env.LOCAL_DEVICES_MAX_CONCURRENT

\* the state of one facade call
core ==
  << op, ipSet, K, macOrIP, itPos, promises, geni, genpc, cpc, host, devs,
     entries, exact, table, tableReads, result, started, completed, yielded,
     lookedUp, emitted, readFailed >>

\* the state of the parts that are followed on their own
parts == << sock, race, calls, hex, env >>

vars == << core, parts >>

None == [kind |-> "none"]

\* the environment variable is not set: process.env.X is undefined
Unset == [set |-> FALSE]

\* the environment variable is set to the string v
Setting(v) == [set |-> TRUE, value |-> v]

S == Range(ipSet)

\* the membership test left out
InSetAlways(d) == TRUE

\* ipSet.has(device.ip)
InSet(d) == d.ip \in S

\* the first record is taken whatever it is
MatchesAnything(d) == TRUE

\* the comparison of the revision that knew MAC queries only
MatchesMacOnly(d) == toHex(d.mac) = toHex(macOrIP)

\* toHex(device.mac) === macHex || device.ip === macOrIP
Matches(d) == toHex(d.mac) = toHex(macOrIP) \/ d.ip = macOrIP

\* the bulk read used unfiltered
FilterToSetNone(t) == t

\* table.filter(({ ip }) => ipSet.has(ip))
FilterToSet(t) == SelectSeq(t, InSet)

RECURSIVE Insert(_, _)
\* place d after every element that does not compare greater than it
Insert(sorted, d) ==
  IF sorted = <<>> THEN <<d>>
  ELSE IF arrayCompare(parseIPv4(Head(sorted).ip), parseIPv4(d.ip)) > 0
       THEN <<d>> \o sorted
       ELSE <<Head(sorted)>> \o Insert(Tail(sorted), d)

RECURSIVE SortByIP(_)
\* .sort((a, b) => arrayCompare(parseIPv4(a.ip), parseIPv4(b.ip))), stable
SortByIP(t) ==
  IF t = <<>> THEN <<>>
  ELSE Insert(SortByIP(SubSeq(t, 1, Len(t) - 1)), t[Len(t)])

\* ------------------------------------------------------------- scheduler
RECURSIVE takeLoop(_, _, _)
\* while (n-- > 0 && !(itRes = it.next()).done) res.push(itRes.value)
takeLoop(pos, n, res) ==
  IF n > 0 /\ pos < Len(ipSet)
  THEN takeLoop(pos + 1, n - 1, Append(res, ipSet[pos + 1]))
  ELSE [res |-> res, pos |-> pos]

\* the loop test n-- >= 0: one element too many
takeFromIterOneMore(pos, n) == takeLoop(pos, n + 1, <<>>)

\* the loop test with its operands swapped: it.next() is called once more
\* than elements are pushed, and that element is lost
takeFromIterSkipping(pos, n) ==
  LET r == takeLoop(pos, n, <<>>)
  IN  [res |-> r.res,
       pos |-> IF r.pos < Len(ipSet) THEN r.pos + 1 ELSE r.pos]

takeFromIter(pos, n) == takeLoop(pos, n, <<>>)

\* f(x).then(index(i)): a pending probe tagged with its slot
Task(i, x) == [i |-> i, x |-> x, settled |-> FALSE]

\* the entry of the winner left in the Map
DeleteNothing(pr, i) == pr

\* promises.delete(i)
Delete(pr, i) == SelectSeq(pr, LAMBDA t : t.i # i)

\* the new probe is entered under the slot after the vacated one
SetWrongSlot(pr, i, x) == Append(Delete(pr, (i + 1) % K), Task((i + 1) % K, x))

\* the next item is taken from the iterator and no probe entered for it
SetDropsProbe(pr, i, x) == Delete(pr, i)

\* promises.set(i, p): i was deleted before, so the entry goes last
Set(pr, i, x) == Append(Delete(pr, i), Task(i, x))

\* probes that die with the session when the generator is returned
InFlightUntilReturn ==
  IF genpc = "returned"
  THEN {}
  ELSE {k \in 1..Len(promises) : ~promises[k].settled}

\* the probes whose promise has not resolved yet
InFlight == {k \in 1..Len(promises) : ~promises[k].settled}

\* Promise.race(promises.values()) when some promise is already settled:
\* the reactions are queued in iteration order, the first one wins
FirstSettled(pr) ==
  CHOOSE k \in 1..Len(pr) : pr[k].settled /\ \A j \in 1..(k - 1) : ~pr[j].settled

\* the loop receives `value` from the generator
Deliver(x) ==
  /\ host' = x
  /\ yielded' = Append(yielded, x)
  /\ cpc' = IF op = "getLocalDeviceList" THEN "body" ELSE "lookup"
  /\ result' = result

\* the generator is exhausted: the for-await loop around it ends
Exhausted ==
  /\ host' = host
  /\ yielded' = yielded
  /\ cpc' = CASE op = "getLocalDeviceList" -> "table"
              [] OTHER -> "done"
  /\ result' = IF op = "findLocalDevice" THEN Undefined ELSE result

\* the loop test promises.size > 1: the generator ends with a probe pending
LoopStopsEarly(pr) ==
  IF Len(pr) <= 1
  THEN /\ genpc' = "end"
       /\ promises' = pr
       /\ geni' = geni
       /\ Exhausted
  ELSE IF \E k \in 1..Len(pr) : pr[k].settled
       THEN LET w == pr[FirstSettled(pr)]
            IN  /\ genpc' = "yield"
                /\ promises' = Delete(pr, w.i)
                /\ geni' = w.i
                /\ Deliver(w.x)
       ELSE /\ genpc' = "race"
            /\ promises' = pr
            /\ geni' = geni
            /\ cpc' = "wait"
            /\ UNCHANGED <<host, yielded, result>>

\* while (promises.size > 0) { await Promise.race(...); delete; yield }
Loop(pr) ==
  IF pr = <<>>
  THEN /\ genpc' = "end"
       /\ promises' = pr
       /\ geni' = geni
       /\ Exhausted
  ELSE IF \E k \in 1..Len(pr) : pr[k].settled
       THEN LET w == pr[FirstSettled(pr)]
            IN  /\ genpc' = "yield"
                /\ promises' = Delete(pr, w.i)
                /\ geni' = w.i
                /\ Deliver(w.x)
       ELSE /\ genpc' = "race"
            /\ promises' = pr
            /\ geni' = geni
            /\ cpc' = "wait"
            /\ UNCHANGED <<host, yielded, result>>

\* ---------------------------------------------------------------- actions
\* the state when the facade operation o is called
InitOp(o) ==
  /\ op = o
  /\ ipSet \in IPSets
  /\ K \in 1..MaxK
  /\ macOrIP \in (IF op = "findLocalDevice" THEN Queries ELSE {NoQuery})
  /\ itPos = 0
  /\ promises = <<>>
  /\ geni = 0
  /\ genpc = "start"
  /\ cpc = IF op = "findLocalDevice" THEN "cache" ELSE "idle"
  /\ host = <<>>
  /\ devs = <<>>
  /\ entries = 0
  /\ exact = TRUE
  /\ table = <<>>
  /\ tableReads = 0
  /\ result = NoResult
  /\ started = <<>>
  /\ completed = <<>>
  /\ yielded = <<>>
  /\ lookedUp = <<>>
  /\ emitted = <<>>
  /\ readFailed = FALSE
  /\ sock = None
  /\ race = None
  /\ calls = <<>>
  /\ hex = None
  /\ env = Setting(Decimal(K))

\* findLocalDevice: the bulk read, then the search of the cached entries
CacheCheck(t) ==
  /\ cpc = "cache"
  /\ tableReads' = tableReads + 1
  /\ LET hits == SelectSeq(FilterToSet(t), Matches)
     IN  IF hits # <<>>
         THEN /\ result' = Found(Head(hits))
              /\ table' = t
              /\ cpc' = "done"
         ELSE /\ result' = result
              /\ table' = <<>>  \* not used again once the loop found nothing
              /\ cpc' = "idle"
  /\ UNCHANGED << op, ipSet, K, macOrIP, itPos, promises, geni, genpc, host,
                  devs, entries, exact, started, completed, yielded, lookedUp,
                  emitted >>
  /\ UNCHANGED << readFailed, parts >>

\* the first next() of the for-await loop runs mapConcurrently up to its
\* first race
FirstPull ==
  /\ cpc = "idle"
  /\ genpc = "start"
  /\ LET batch == takeFromIter(0, K)
         pr == [k \in 1..Len(batch.res) |-> Task(k - 1, batch.res[k])]
     IN  /\ itPos' = batch.pos
         /\ started' = started \o batch.res
         /\ Loop(pr)
  /\ UNCHANGED << op, ipSet, K, macOrIP, devs, entries, exact, table, tableReads,
                  completed, lookedUp, emitted >>
  /\ UNCHANGED << readFailed, parts >>

\* connect, error or timeout on the socket of the probe at position k of
\* the Map: close() resolves the promise
PingDone(k) ==
  /\ k \in InFlight
  /\ completed' = Append(completed, promises[k].x)
  /\ IF genpc = "race"
     THEN /\ genpc' = "yield"
          /\ promises' = Delete(promises, promises[k].i)
          /\ geni' = promises[k].i
          /\ Deliver(promises[k].x)
     ELSE /\ promises' = [promises EXCEPT ![k].settled = TRUE]
          /\ UNCHANGED <<genpc, geni, host, yielded, cpc, result>>
  /\ UNCHANGED << op, ipSet, K, macOrIP, itPos, devs, entries, exact, table,
                  tableReads, started, lookedUp, emitted >>
  /\ UNCHANGED << readFailed, parts >>

\* await ipLookup(host) || []
Lookup(ds) ==
  /\ cpc = "lookup"
  /\ Len(ds) + entries <= MaxEntries
  /\ devs' = ds
  /\ entries' = entries + Len(ds)
  /\ exact' = (exact /\ Len(ds) <= 1 /\ \A n \in 1..Len(ds) : ds[n].ip = host)
  /\ lookedUp' = Append(lookedUp, host)
  /\ cpc' = "devices"
  /\ UNCHANGED << op, ipSet, K, macOrIP, itPos, promises, geni, genpc, host,
                  table, tableReads, result, started, completed, yielded,
                  emitted >>
  /\ UNCHANGED << readFailed, parts >>

\* if (ipSet.has(device.ip)) yield device, and what the loop around scan
\* does with it
YieldDevice ==
  /\ cpc = "devices"
  /\ devs # <<>>
  /\ InSet(Head(devs))
  /\ emitted' = Append(emitted, Head(devs))
  /\ IF op = "findLocalDevice" /\ Matches(Head(devs))
     THEN /\ result' = Found(Head(devs))
          /\ cpc' = "done"
          /\ genpc' = "returned"
          /\ devs' = <<>>
     ELSE /\ devs' = Tail(devs)
          /\ UNCHANGED <<result, cpc, genpc>>
  /\ UNCHANGED << op, ipSet, K, macOrIP, itPos, promises, geni, host,
                  entries, exact, table, tableReads, started, completed, yielded,
                  lookedUp >>
  /\ UNCHANGED << readFailed, parts >>

\* an entry outside the target set is passed over
SkipDevice ==
  /\ cpc = "devices"
  /\ devs # <<>>
  /\ ~InSet(Head(devs))
  /\ devs' = Tail(devs)
  /\ UNCHANGED << op, ipSet, K, macOrIP, itPos, promises, geni, genpc, cpc,
                  host, entries, exact, table, tableReads, result, started,
                  completed, yielded, lookedUp, emitted >>
  /\ UNCHANGED << readFailed, parts >>

\* the loop body is finished and next() resumes mapConcurrently after its
\* yield: it.next(), promises.set(i, ...), and the next race
NextHost ==
  /\ \/ cpc = "devices" /\ devs = <<>>
     \/ cpc = "body"
  /\ genpc = "yield"
  /\ IF itPos < Len(ipSet)
     THEN /\ itPos' = itPos + 1
          /\ started' = Append(started, ipSet[itPos + 1])
          /\ Loop(Set(promises, geni, ipSet[itPos + 1]))
     ELSE /\ UNCHANGED <<itPos, started>>
          /\ Loop(promises)
  /\ UNCHANGED << op, ipSet, K, macOrIP, devs, entries, exact, table, tableReads,
                  completed, lookedUp, emitted >>
  /\ UNCHANGED << readFailed, parts >>

\* getLocalDeviceList: await arpTable(), filter, sort
ReadTable(t) ==
  /\ cpc = "table"
  /\ table' = t
  /\ tableReads' = tableReads + 1
  /\ result' = List(SortByIP(FilterToSet(t)))
  /\ cpc' = "done"
  /\ UNCHANGED << op, ipSet, K, macOrIP, itPos, promises, geni, genpc, host,
                  devs, entries, exact, started, completed, yielded, lookedUp,
                  emitted >>
  /\ UNCHANGED << readFailed, parts >>

\* ------------------------------------------- findLocalDevices (streaming)
Init == InitOp("findLocalDevices")

Next ==
  \/ FirstPull
  \/ \E k \in 1..Len(promises) : PingDone(k)
  \/ \E ds \in SeqsUpTo(Devices, MaxEntries) : Lookup(ds)
  \/ YieldDevice
  \/ SkipDevice
  \/ NextHost

Spec == Init /\ [][Next]_vars

\* every probe completes (the socket timeout sees to it), every lookup
\* returns, and the consumer keeps pulling
Fairness ==
  /\ WF_vars(FirstPull)
  /\ WF_vars(\E k \in 1..Len(promises) : PingDone(k))
  /\ WF_vars(\E ds \in SeqsUpTo(Devices, MaxEntries) : Lookup(ds))
  /\ WF_vars(YieldDevice)
  /\ WF_vars(SkipDevice)
  /\ WF_vars(NextHost)

FairSpec == Spec /\ Fairness

\* ------------------------- findLocalDevices with a consumer that gives up
\* the consumer leaves its for-await loop at the device it receives (break):
\* the generators are returned, nothing pulls the scheduler again
Abandon ==
  /\ op = "findLocalDevices"
  /\ cpc = "devices"
  /\ devs # <<>>
  /\ InSet(Head(devs))
  /\ emitted' = Append(emitted, Head(devs))
  /\ cpc' = "abandoned"
  /\ genpc' = "returned"
  /\ devs' = <<>>
  /\ UNCHANGED << op, ipSet, K, macOrIP, itPos, promises, geni, host,
                  entries, exact, table, tableReads, result, started, completed,
                  yielded, lookedUp >>
  /\ UNCHANGED << readFailed, parts >>

NextAbandon ==
  \/ Next
  \/ Abandon

SpecAbandon == Init /\ [][NextAbandon]_vars

FairSpecAbandon == SpecAbandon /\ Fairness

\* ------------------------------------------------------- findLocalDevice
InitFind == InitOp("findLocalDevice")

NextFind ==
  \/ \E t \in SeqsUpTo(TableEntries, MaxTable) : CacheCheck(t)
  \/ FirstPull
  \/ \E k \in 1..Len(promises) : PingDone(k)
  \/ \E ds \in SeqsUpTo(Devices, MaxEntries) : Lookup(ds)
  \/ YieldDevice
  \/ SkipDevice
  \/ NextHost

SpecFind == InitFind /\ [][NextFind]_vars

\* ---------------------------------------------------- getLocalDeviceList
InitList == InitOp("getLocalDeviceList")

NextList ==
  \/ FirstPull
  \/ \E k \in 1..Len(promises) : PingDone(k)
  \/ NextHost
  \/ \E t \in SeqsUpTo(TableEntries, MaxTable) : ReadTable(t)

SpecList == InitList /\ [][NextList]_vars

\* ----------------------------------- the operations with failing reads
\* a rejected await that is caught and turned into `undefined`
ThrownSwallowed == Undefined

\* what the caller gets when an awaited read rejects: no try/catch anywhere,
\* the async function (or the consumer's pull) rejects
Thrown == [kind |-> "error"]

\* findLocalDevice: await arpTable() rejects
CacheCheckFails ==
  /\ cpc = "cache"
  /\ tableReads' = tableReads + 1
  /\ readFailed' = TRUE
  /\ result' = Thrown
  /\ cpc' = "done"
  /\ UNCHANGED << op, ipSet, K, macOrIP, itPos, promises, geni, genpc, host,
                  devs, entries, exact, table, started, completed, yielded,
                  lookedUp, emitted >>
  /\ UNCHANGED parts

\* scan: await ipLookup(host) rejects; the exception leaves the for-await
\* loop, which returns the scheduler
LookupFails ==
  /\ cpc = "lookup"
  /\ lookedUp' = Append(lookedUp, host)
  /\ readFailed' = TRUE
  /\ result' = Thrown
  /\ cpc' = "done"
  /\ genpc' = "returned"
  /\ UNCHANGED << op, ipSet, K, macOrIP, itPos, promises, geni, host, devs,
                  entries, exact, table, tableReads, started, completed, yielded,
                  emitted >>
  /\ UNCHANGED parts

\* getLocalDeviceList: await arpTable() rejects
ReadTableFails ==
  /\ cpc = "table"
  /\ tableReads' = tableReads + 1
  /\ readFailed' = TRUE
  /\ result' = Thrown
  /\ cpc' = "done"
  /\ UNCHANGED << op, ipSet, K, macOrIP, itPos, promises, geni, genpc, host,
                  devs, entries, exact, table, started, completed, yielded,
                  lookedUp, emitted >>
  /\ UNCHANGED parts

InitFail ==
  \E o \in {"findLocalDevices", "findLocalDevice", "getLocalDeviceList"} :
    InitOp(o)

\* what the reads that succeed return here: nothing or one entry
FailTables == SeqsUpTo(TableEntries, 1)
FailLookups == SeqsUpTo(Devices, 1)

NextFail ==
  \/ \E t \in FailTables : CacheCheck(t)
  \/ CacheCheckFails
  \/ FirstPull
  \/ \E k \in 1..Len(promises) : PingDone(k)
  \/ \E ds \in FailLookups : Lookup(ds)
  \/ LookupFails
  \/ YieldDevice
  \/ SkipDevice
  \/ NextHost
  \/ \E t \in FailTables : ReadTable(t)
  \/ ReadTableFails

SpecFail == InitFail /\ [][NextFail]_vars

\* ------------------------------------------------------ toHex on its own
\* no facade call is in progress
CoreIdle ==
  /\ op = "none"
  /\ ipSet = <<>>
  /\ K = 1
  /\ macOrIP = NoQuery
  /\ itPos = 0
  /\ promises = <<>>
  /\ geni = 0
  /\ genpc = "start"
  /\ cpc = "none"
  /\ host = <<>>
  /\ devs = <<>>
  /\ entries = 0
  /\ exact = TRUE
  /\ table = <<>>
  /\ tableReads = 0
  /\ result = NoResult
  /\ started = <<>>
  /\ completed = <<>>
  /\ yielded = <<>>
  /\ lookedUp = <<>>
  /\ emitted = <<>>
  /\ readFailed = FALSE
  /\ env = Setting(Decimal(K))

\* characters of the strings handed to toHex: hex digits in both cases,
\* separators, and characters that are neither
MacChars == {"A", "b", "F", "0", ":", "-", "G", "."}

AA_BB_CC_DD_EE_FF ==
  << "A", "A", ":", "B", "B", ":", "C", "C", ":", "D", "D", ":", "E", "E",
     ":", "F", "F" >>

aa_bb_cc_dd_ee_ff ==
  << "a", "a", "-", "b", "b", "-", "c", "c", "-", "d", "d", "-", "e", "e",
     "-", "f", "f" >>

aabbccddeeff ==
  <<"a", "a", "b", "b", "c", "c", "d", "d", "e", "e", "f", "f">>

\* the MAC of a table entry: spellings of the same and of other addresses
MacSpellings ==
  {AA_BB_CC_DD_EE_FF, aa_bb_cc_dd_ee_ff, aabbccddeeff, AA_BB, aa_bb, aabb,
   cc_dd}

InitHex ==
  /\ CoreIdle
  /\ sock = None
  /\ race = None
  /\ calls = <<>>
  /\ \E a \in SeqsUpTo(MacChars, MaxMacLen) \cup MacSpellings,
         b \in MacSpellings :
       hex = [pc |-> "input", a |-> a, b |-> b]

\* const macHex = toHex(macOrIP); toHex(device.mac) === macHex
Compare ==
  /\ hex # None
  /\ hex.pc = "input"
  /\ hex' = [pc |-> "done", a |-> hex.a, b |-> hex.b,
             ha |-> toHex(hex.a), hb |-> toHex(hex.b),
             haa |-> toHex(toHex(hex.a)),
             same |-> (toHex(hex.b) = toHex(hex.a))]
  /\ UNCHANGED << core, env, sock, race, calls >>

NextHex == Compare

SpecHex == InitHex /\ [][NextHex]_vars

\* ------------------------------------------------------- ping on its own
\* addresses ping is called with
PingAddrs == {Addr(n, HostPool[i]) : n \in 0..1, i \in 1..Len(HostPool)}

SocketEvents == {"connect", "error", "timeout"}

\* resolve(v): settles the promise if it is still pending, else does nothing
resolve(s, v) ==
  IF s.state = "pending"
  THEN [s EXCEPT !.state = "fulfilled", !.value = v, !.settles = @ + 1]
  ELSE s

\* close with the socket left open
closeWithoutDestroy(s) == resolve(s, s.addr)

\* const close = () => (socket.destroy(), resolve(address))
close(s) == resolve([s EXCEPT !.destroyed = TRUE], s.addr)

InitPing ==
  /\ CoreIdle
  /\ race = None
  /\ calls = <<>>
  /\ hex = None
  /\ \E a \in PingAddrs :
       sock = [pc |-> "call", addr |-> a, listeners |-> {}, events |-> <<>>,
               destroyed |-> FALSE, state |-> "pending", value |-> <<>>,
               settles |-> 0]

\* the executor: new Socket(), setTimeout(.., close), connect(.., close),
\* once('error', close): three one-time listeners
PingCall ==
  /\ sock # None
  /\ sock.pc = "call"
  /\ sock' = [sock EXCEPT !.pc = "open", !.listeners = SocketEvents]
  /\ UNCHANGED << core, env, race, calls, hex >>

\* the socket emits e and the one-time listener close runs
SocketEvent(e) ==
  /\ sock # None
  /\ sock.pc = "open"
  /\ e \in sock.listeners
  /\ sock' = close([sock EXCEPT !.listeners = @ \ {e},
                                !.events = Append(@, e)])
  /\ UNCHANGED << core, env, race, calls, hex >>

NextPing ==
  \/ PingCall
  \/ \E e \in SocketEvents : SocketEvent(e)

SpecPing == InitPing /\ [][NextPing]_vars

\* ---------------------------------------------------- raceAll on its own
\* the value promise i resolves with
RaceValue(i) == Addr(0, HostPool[i + 1])

\* keys still in the Map
LiveKeys(r) == {i \in 0..(r.n - 1) : i \notin r.deleted}

\* await Promise.race(promises.values()); promises.delete(i); yield value:
\* with a settled promise in the Map the first one in Map order wins at once
RaceAwait(r) ==
  LET ready == LiveKeys(r) \cap r.settled
  IN  IF ready = {}
      THEN [r EXCEPT !.pc = "await"]
      ELSE LET w == CHOOSE i \in ready : \A j \in ready : i <= j
           IN  [r EXCEPT !.pc = "yield", !.deleted = @ \cup {w},
                         !.out = Append(@, RaceValue(w))]

\* for (const _ of promises): the Map iterator steps to the next entry that
\* is still in the Map at or after its position; entries deleted meanwhile
\* are passed over, and with none left the loop and the generator end
RaceLoopHead(r) ==
  LET ahead == {i \in LiveKeys(r) : i >= r.pos}
  IN  IF ahead = {}
      THEN [r EXCEPT !.pc = "done"]
      ELSE LET e == CHOOSE i \in ahead : \A j \in ahead : i <= j
           IN  RaceAwait([r EXCEPT !.pos = e + 1])

InitRace ==
  /\ CoreIdle
  /\ sock = None
  /\ calls = <<>>
  /\ hex = None
  /\ \E n \in 0..MaxRace :
       race = [pc |-> "start", n |-> n, settled |-> {}, deleted |-> {},
               pos |-> 0, out |-> <<>>]

\* the consumer's first next(): the Map is built and the loop is entered
RaceFirstPull ==
  /\ race # None
  /\ race.pc = "start"
  /\ race' = RaceLoopHead(race)
  /\ UNCHANGED << core, env, sock, calls, hex >>

\* promise i resolves; a generator waiting in the race resumes with it
RaceSettle(i) ==
  /\ race # None
  /\ i \in 0..(race.n - 1)
  /\ i \notin race.settled
  /\ race' = IF race.pc = "await"
             THEN RaceAwait([race EXCEPT !.settled = @ \cup {i}])
             ELSE [race EXCEPT !.settled = @ \cup {i}]
  /\ UNCHANGED << core, env, sock, calls, hex >>

\* the consumer pulls again: the generator resumes after its yield
RacePull ==
  /\ race # None
  /\ race.pc = "yield"
  /\ race' = RaceLoopHead(race)
  /\ UNCHANGED << core, env, sock, calls, hex >>

NextRace ==
  \/ RaceFirstPull
  \/ \E i \in 0..(MaxRace - 1) : RaceSettle(i)
  \/ RacePull

SpecRace == InitRace /\ [][NextRace]_vars

\* ------------------------------- several discovery calls in one process
\* Every call of getLocalDeviceList runs its own mapConcurrently with its own
\* Map; MAX_CONCURRENT is the one module constant all of them read. The loop
\* body of getLocalDeviceList is empty, so a yield and the next pull happen
\* in the same turn of the event loop.
CallIds == 1..MaxCalls

\* the race after the window was refilled, or the end of the loop
CallLoop(c) ==
  IF c.promises = <<>> THEN [c EXCEPT !.pc = "table"] ELSE [c EXCEPT !.pc = "race"]

InitCalls ==
  /\ CoreIdle
  /\ sock = None
  /\ race = None
  /\ hex = None
  /\ \E k \in 1..MaxK, sets \in [CallIds -> IPSets] :
       calls = [c \in CallIds |->
                 [pc |-> "idle", limit |-> k, ipSet |-> sets[c], itPos |-> 0,
                  promises |-> <<>>]]

\* call c is made and runs up to its first race: takeFromIter(it, n) and
\* one probe per item of the batch
CallStart(c) ==
  /\ calls[c].pc = "idle"
  /\ LET me == calls[c]
         n == IF me.limit < Len(me.ipSet) THEN me.limit ELSE Len(me.ipSet)
         pr == [k \in 1..n |-> Task(k - 1, me.ipSet[k])]
     IN  calls' = [calls EXCEPT ![c] =
                     CallLoop([me EXCEPT !.itPos = n, !.promises = pr])]
  /\ UNCHANGED << core, env, sock, race, hex >>

\* the probe at position k of call c's Map resolves: delete, yield, pull,
\* it.next(), promises.set(i, ...), next race
CallPingDone(c, k) ==
  /\ calls[c].pc = "race"
  /\ k \in 1..Len(calls[c].promises)
  /\ LET me == calls[c]
         i == me.promises[k].i
     IN  calls' = [calls EXCEPT ![c] =
                     IF me.itPos < Len(me.ipSet)
                     THEN CallLoop([me EXCEPT
                            !.itPos = @ + 1,
                            !.promises = Set(me.promises, i, me.ipSet[me.itPos + 1])])
                     ELSE CallLoop([me EXCEPT !.promises = Delete(me.promises, i)])]
  /\ UNCHANGED << core, env, sock, race, hex >>

\* await arpTable() and the return of call c
CallReturn(c) ==
  /\ calls[c].pc = "table"
  /\ calls' = [calls EXCEPT ![c].pc = "done"]
  /\ UNCHANGED << core, env, sock, race, hex >>

NextCalls ==
  \/ \E c \in CallIds : CallStart(c)
  \/ \E c \in CallIds, k \in 1..MaxK : CallPingDone(c, k)
  \/ \E c \in CallIds : CallReturn(c)

SpecCalls == InitCalls /\ [][NextCalls]_vars

\* ------------------------------------ the scan under every kind of setting
\* values of LOCAL_DEVICES_MAX_CONCURRENT: unset, empty, non-numeric, zero,
\* negative, positive
EnvSettings ==
  {Unset, Setting(<<>>), Setting(<<"a", "b", "c">>), Setting(<<"-">>),
   Setting(<<"1", "x">>), Setting(<<"0">>), Setting(<<"-", "0">>),
   Setting(<<"-", "1">>), Setting(<<"-", "3", "2">>), Setting(<<"1">>),
   Setting(<<"+", "2">>), Setting(<<"3", "2">>)}

\* the module is loaded with the setting e, then findLocalDevices is called
InitEnv ==
  /\ env \in EnvSettings
  /\ K = MAX_CONCURRENT(env)
  /\ op = "findLocalDevices"
  /\ ipSet \in IPSets
  /\ macOrIP = NoQuery
  /\ itPos = 0
  /\ promises = <<>>
  /\ geni = 0
  /\ genpc = "start"
  /\ cpc = "idle"
  /\ host = <<>>
  /\ devs = <<>>
  /\ entries = 0
  /\ exact = TRUE
  /\ table = <<>>
  /\ tableReads = 0
  /\ result = NoResult
  /\ started = <<>>
  /\ completed = <<>>
  /\ yielded = <<>>
  /\ lookedUp = <<>>
  /\ emitted = <<>>
  /\ readFailed = FALSE
  /\ sock = None
  /\ race = None
  /\ calls = <<>>
  /\ hex = None

NextEnv ==
  \/ FirstPull
  \/ \E k \in 1..Len(promises) : PingDone(k)
  \/ \E ds \in FailLookups : Lookup(ds)
  \/ YieldDevice
  \/ SkipDevice
  \/ NextHost

SpecEnv == InitEnv /\ [][NextEnv]_vars

\* ---------------------------------------------------------------- claims
\* how often address a occurs in the sequence s
Count(s, a) == Cardinality({n \in 1..Len(s) : s[n] = a})

\* every address of the set has been probed once and its probe has resolved
AllProbed ==
  /\ \A a \in S : Count(started, a) = 1 /\ Count(completed, a) = 1
  /\ Len(started) = Len(ipSet)
  /\ Len(completed) = Len(ipSet)

\* the query matches the entry: normalized MAC equal, or ip literally equal
QueryMatch(d) == toHex(d.mac) = toHex(macOrIP) \/ d.ip = macOrIP

\* positions of the bulk read that are in the target set and match the query
TableHits ==
  {n \in 1..Len(table) : table[n].ip \in S /\ QueryMatch(table[n])}

\* C1: at most K workers are started and not yet completed, in every state
C1_AtMostKOutstanding == Len(started) - Len(completed) <= K

C1_Witness ==
  /\ K >= 2
  /\ Len(ipSet) > K
  /\ Len(completed) >= 1
  /\ Len(started) - Len(completed) = K

\* C2: every Device Record the scan yields has an ip of the target set
C2_FilterInvariant == \A n \in 1..Len(emitted) : emitted[n].ip \in S

C2_Witness ==
  /\ Len(emitted) >= 1
  /\ entries > Len(emitted) + Len(devs)

\* C3: no address is probed twice, none outside the set is probed, and when
\* the scan has been drained every address of the set was probed once
C3_ProbedExactlyOnce ==
  /\ \A n \in 1..Len(started) :
       started[n] \in S /\ Count(started, started[n]) = 1
  /\ cpc = "done" => \A a \in S : Count(started, a) = 1

C3_Witness ==
  /\ cpc = "done"
  /\ Len(ipSet) >= 3
  /\ K = 2

\* C4: results are yielded in completion order: the addresses yielded so
\* far are the first addresses that completed, in that order
C4_CompletionOrder ==
  /\ Len(yielded) <= Len(completed)
  /\ \A n \in 1..Len(yielded) : yielded[n] = completed[n]

C6_EndsAfterAllCompleted ==
  /\ <>(cpc = "done")
  /\ [](cpc = "done" =>
         /\ AllProbed
         /\ Len(yielded) = Len(ipSet)
         /\ promises = <<>>
         /\ itPos = Len(ipSet))

C6_Witness ==
  /\ cpc = "done"
  /\ Len(ipSet) >= 3
  /\ K < Len(ipSet)
  /\ Len(emitted) >= 1

\* C7: a match in the bulk read restricted to the target set is returned
\* (the first one), and no probe is ever started
C7_CacheHitWithoutProbe ==
  (tableReads >= 1 /\ TableHits # {}) =>
    /\ cpc = "done"
    /\ result = Found(table[CHOOSE n \in TableHits : \A m \in TableHits : n <= m])
    /\ started = <<>>
    /\ genpc = "start"

C7_Witness ==
  /\ cpc = "done"
  /\ TableHits # {}
  /\ 1 \notin TableHits
  /\ Len(ipSet) >= 1

\* C8: the call returns undefined exactly when neither the bulk read nor an
\* emitted record matched, and then every address has been probed and the
\* scan has run to its end
C8_NotFoundAfterExhaustiveScan ==
  cpc = "done" =>
    /\ result.kind \in {"device", "undefined"}
    /\ result = Undefined <=>
         (TableHits = {} /\ \A n \in 1..Len(emitted) : ~QueryMatch(emitted[n]))
    /\ result = Undefined => (AllProbed /\ genpc = "end" /\ tableReads = 1)

C8_Witness ==
  /\ cpc = "done"
  /\ result = Undefined
  /\ Len(ipSet) >= 2
  /\ Len(emitted) >= 1

\* numeric comparison octet by octet: p is before q, or equal to it
OctetsLeq(p, q) ==
  \/ p = q
  \/ \E k \in 1..Len(p) :
       /\ \A j \in 1..(k - 1) : p[j] = q[j]
       /\ p[k] < q[k]

\* C9: the list is the entries of the bulk read with an ip of the target
\* set, each as often as it was read, in ascending numeric order
C9_SortedFilteredTable ==
  cpc = "done" =>
    /\ result.kind = "list"
    /\ \A d \in TableEntries :
         Count(result.value, d) = IF d.ip \in S THEN Count(table, d) ELSE 0
    /\ \A n \in 1..(Len(result.value) - 1) :
         OctetsLeq(parseIPv4(result.value[n].ip),
                   parseIPv4(result.value[n + 1].ip))

C9_Witness ==
  /\ cpc = "done"
  /\ Len(result.value) = 3
  /\ result.value[1].ip = Addr(0, 2)
  /\ result.value[2].ip = Addr(0, 9)
  /\ result.value[3].ip = Addr(0, 10)
  /\ table[1].ip = Addr(0, 10)

\* C10: the bulk read happens once, and only when every probe of the set
\* has been started and has completed
C10_ReadAfterAllProbes ==
  /\ tableReads <= 1
  /\ (tableReads = 1 \/ cpc = "table") => (AllProbed /\ promises = <<>>)

C10_Witness ==
  /\ tableReads = 1
  /\ Len(ipSet) >= 3
  /\ K = 2

\* the hexadecimal digit a character stands for, in lower case; none for
\* every other character
HexDigitOf(c) ==
  CASE c \in {"a", "A"} -> <<"a">> [] c \in {"b", "B"} -> <<"b">>
    [] c \in {"c", "C"} -> <<"c">> [] c \in {"d", "D"} -> <<"d">>
    [] c \in {"e", "E"} -> <<"e">> [] c \in {"f", "F"} -> <<"f">>
    [] c \in Digits -> <<c>>
    [] OTHER -> <<>>

RECURSIVE Normalized(_)
\* the string lower-cased, with every non-hexadecimal character removed
Normalized(m) ==
  IF m = <<>> THEN <<>> ELSE HexDigitOf(Head(m)) \o Normalized(Tail(m))

\* C11: two MAC strings compare equal exactly when their lower-cased,
\* hex-only forms are equal; toHex is idempotent; the three spellings of
\* aa:bb:cc:dd:ee:ff compare equal
C11_MacComparison ==
  (hex # None /\ hex.pc = "done") =>
    /\ hex.ha = Normalized(hex.a)
    /\ hex.same <=> (Normalized(hex.a) = Normalized(hex.b))
    /\ hex.haa = hex.ha
    /\ ({hex.a, hex.b} \subseteq
          {AA_BB_CC_DD_EE_FF, aa_bb_cc_dd_ee_ff, aabbccddeeff} => hex.same)

C11_Witness ==
  /\ hex # None
  /\ hex.pc = "done"
  /\ hex.a = AA_BB_CC_DD_EE_FF
  /\ hex.b = aabbccddeeff
  /\ hex.same

\* C14: before any event the promise is pending and the socket open; from
\* the first event on the promise is fulfilled with the address given,
\* settled once, never rejected, and the socket is destroyed
C14_PingResolvesOnce ==
  sock # None =>
    /\ sock.state # "rejected"
    /\ sock.events = <<>> =>
         (sock.state = "pending" /\ ~sock.destroyed /\ sock.settles = 0)
    /\ sock.events # <<>> =>
         /\ sock.state = "fulfilled"
         /\ sock.value = sock.addr
         /\ sock.settles = 1
         /\ sock.destroyed

C14_Witness ==
  /\ sock # None
  /\ Len(sock.events) = 3
  /\ sock.events[1] = "error"
  /\ sock.state = "fulfilled"

\* C13: when raceAll has ended, the value of each of the N promises has
\* been yielded exactly once
C13_RaceAllYieldsAll ==
  (race # None /\ race.pc = "done") =>
    /\ Len(race.out) = race.n
    /\ \A i \in 0..(race.n - 1) :
         Cardinality({k \in 1..Len(race.out) : race.out[k] = RaceValue(i)}) = 1

\* C12: a consumer that leaves the sequence gets no error, and from then
\* on every probe that was started resolves: eventually none is pending
C12_AbandonedProbesComplete ==
  /\ [](cpc = "abandoned" => result = NoResult)
  /\ (cpc = "abandoned") ~>
       /\ cpc = "abandoned"
       /\ \A k \in 1..Len(promises) : promises[k].settled
       /\ \A a \in Range(started) : Count(completed, a) = Count(started, a)
       /\ Len(completed) = Len(started)

C12_Witness ==
  /\ cpc = "abandoned"
  /\ Len(emitted) = 1
  /\ Len(yielded) = 1
  /\ Len(promises) >= 2
  /\ \A k \in 1..Len(promises) : promises[k].settled
  /\ Len(completed) = Len(started)

\* probes in flight in the calls 1..c together
RECURSIVE InFlightUpTo(_)
InFlightUpTo(c) ==
  IF c = 0 THEN 0 ELSE Len(calls[c].promises) + InFlightUpTo(c - 1)

\* C15: the probes in flight in the whole process, all calls in progress
\* taken together, never exceed the configured limit
C15_ProcessWideLimit ==
  calls # <<>> => InFlightUpTo(MaxCalls) <= calls[1].limit

\* C16: an operation whose table read failed has ended with the error and
\* with nothing else, and an operation ends with an error only when a read
\* failed: a search that found nothing ends with `undefined`
C16_ReadFailurePropagates ==
  /\ readFailed => (cpc = "done" /\ result = Thrown)
  /\ result = Thrown => readFailed
  /\ (op = "findLocalDevice" /\ cpc = "done" /\ ~readFailed) =>
       result.kind \in {"device", "undefined"}

C16_Witness ==
  /\ op = "findLocalDevice"
  /\ readFailed
  /\ cpc = "done"
  /\ Len(lookedUp) >= 2
  /\ tableReads = 1

\* C17 as stated: from the first pull until the input is exhausted the
\* window holds exactly K operations in every state
C17_AlwaysExactlyK ==
  (genpc # "start" /\ itPos < Len(ipSet)) => Len(promises) = K

\* C17 amended: while input remains, the window holds K unresolved probes
\* whenever the scheduler waits in its race, and K - 1 entries from a yield
\* until the consumer pulls again; it does not end before the input does
C17_KWhileRacing ==
  /\ (genpc = "race" /\ itPos < Len(ipSet)) =>
       (Len(promises) = K /\ Cardinality(InFlight) = K)
  /\ (genpc = "yield" /\ itPos < Len(ipSet)) => Len(promises) = K - 1
  /\ genpc = "end" => itPos = Len(ipSet)

C17_Witness ==
  /\ genpc = "race"
  /\ itPos < Len(ipSet)
  /\ Len(yielded) >= 1
  /\ Len(started) = K + 1

\* the entry e of the window is also in the window pr
InWindow(e, pr) == \E j \in 1..Len(pr) : pr[j].i = e.i /\ pr[j].x = e.x

\* C18: the window has at most K entries under distinct slots of
\* 0..min(K, N)-1; an entry leaves the window only as the winner of the race
\* whose result is yielded, and an entry that joins it after the first batch
\* takes the slot just vacated for the next input item
C18_WindowSlots ==
  /\ [](/\ Len(promises) <= K
        /\ \A k \in 1..Len(promises) :
             /\ promises[k].i >= 0
             /\ promises[k].i < K
             /\ promises[k].i < Len(ipSet)
        /\ \A k, j \in 1..Len(promises) :
             promises[k].i = promises[j].i => k = j)
  /\ [][/\ \A k \in 1..Len(promises) :
            ~InWindow(promises[k], promises') =>
              /\ geni' = promises[k].i
              /\ yielded' = Append(yielded, promises[k].x)
              /\ \/ promises[k].settled
                 \/ completed' = Append(completed, promises[k].x)
        /\ genpc # "start" =>
             \A j \in 1..Len(promises') :
               ~InWindow(promises'[j], promises) =>
                 /\ promises'[j].i = geni
                 /\ promises'[j].x = ipSet[itPos + 1]
                 /\ \A k \in 1..Len(promises) : promises[k].i # geni]_vars

C18_Witness ==
  /\ K = 2
  /\ Len(ipSet) = 3
  /\ Len(promises) = 2
  /\ promises[1].i = 0
  /\ promises[1].x = ipSet[1]
  /\ ~promises[1].settled
  /\ promises[2].i = 1
  /\ promises[2].x = ipSet[3]

\* C19: a device returned by findLocalDevice matches the query and has an
\* ip of the target set; one returned from the scan is the last record the
\* scan emitted and the only emitted one that matches; once the call has
\* returned nothing more is pulled, looked up or started
C19_FirstMatchReturned ==
  /\ []((cpc = "done" /\ result.kind = "device") =>
          /\ QueryMatch(result.value)
          /\ result.value.ip \in S
          /\ genpc # "start" =>
               /\ emitted # <<>>
               /\ result.value = emitted[Len(emitted)]
               /\ \A n \in 1..(Len(emitted) - 1) : ~QueryMatch(emitted[n]))
  /\ [][cpc = "done" =>
          /\ result' = result
          /\ emitted' = emitted
          /\ yielded' = yielded
          /\ lookedUp' = lookedUp
          /\ started' = started]_vars

C19_Witness ==
  /\ cpc = "done"
  /\ result.kind = "device"
  /\ genpc = "returned"
  /\ Len(emitted) >= 2
  /\ Len(started) < Len(ipSet)
  /\ Len(completed) = Len(started)

\* C20: nothing is started before the first pull, the workers started never
\* exceed K plus the results handed to the consumer, and once the consumer
\* has left the sequence no further address is started
C20_LazyPullDriven ==
  /\ [](genpc = "start" => started = <<>>)
  /\ [](Len(started) <= K + Len(yielded))
  /\ [][cpc = "abandoned" => (started' = started /\ itPos' = itPos)]_vars

C20_Witness ==
  /\ cpc = "abandoned"
  /\ Len(yielded) >= 2
  /\ Len(started) = K + Len(yielded) - 1
  /\ Len(started) < Len(ipSet)
  /\ Len(completed) = Len(started)

\* C21: whatever the setting is, the limit handed to the scheduler is at
\* least 1, and 32 when the setting is unset, not a number or zero; a scan
\* of a non-empty set that has ended has probed every address
C21_LimitAtLeastOne ==
  /\ K >= 1
  /\ (ToNumber(env).nan \/ ToNumber(env).val = 0) => K = 32
  /\ (genpc = "end" /\ ipSet # <<>>) => AllProbed

====
